---- MODULE Spec2Model ----
(***************************************************************************)
(* Model of ex4-ch1-solution.py: the analyze_code_metrics tool function    *)
(* and the module-level script that registers three specialist agents, a   *)
(* master agent, and drives one thread / message / run cycle.              *)
(*                                                                         *)
(* Python strings that the code formats or lower-cases are sequences of    *)
(* one-character strings; strings that are only passed around are TLA+     *)
(* strings.                                                                *)
(***************************************************************************)
EXTENDS Integers, Sequences, FiniteSets, TLC

VARIABLES
    repo_data,              \* argument of the latest analyze_code_metrics call
    result,                 \* value returned by that call
    pc,                     \* position of the script
    code_analyst,           \* id of the Code Analyst Agent, 0 before creation
    github_explorer,        \* id of the GitHub Repository Agent
    documentation_expert,   \* id of the Microsoft Learn Agent
    connected_tools,        \* the three ConnectedAgentTool definitions
    master_agent,           \* id of the Master Development Agent
    thread,                 \* id of the conversation thread
    user_query,             \* line read from standard input
    run,                    \* the run object create_and_process returned
    messages,               \* the listing returned by messages.list
    cursor,                 \* number of listed messages the render loop has consumed
    output,                 \* what the result section has printed
    agents,                 \* remote registry: agent id -> [name, tools]
    threads,                \* remote store: thread id -> messages in creation order
    runs,                   \* remote store: the runs submitted, in order
    tool_rounds,            \* requires_action rounds the engine has gone through
    calls                   \* remote calls the script has issued, in order

metricsVars == <<repo_data, result>>

scriptVars == <<pc, code_analyst, github_explorer, documentation_expert,
                connected_tools, master_agent, thread, user_query, run,
                messages, cursor, output>>

serviceVars == <<agents, threads, runs, tool_rounds, calls>>

vars == <<metricsVars, scriptVars, serviceVars>>

-----------------------------------------------------------------------------
(* Bounds *)

MaxSize == 20000
MaxStars == 2000
MaxIssues == 20
NumAgentIds == 4
NumThreadIds == 2
MaxReplies == 2
MaxToolRounds == 1

-----------------------------------------------------------------------------
(* Python values *)

PyNone == [kind |-> "None"]

PyDict(items) == [kind |-> "dict", items |-> items]

\* the test "v is not None" in place of bool(v)
TruthyIsNotNone(v) == v.kind # "None"

\* bool(v) for None and dict values
Truthy(v) == IF v.kind = "None" THEN FALSE ELSE DOMAIN v.items # {}

\* dict.get(key, default) on the items of a dict
Get(items, key, default) == IF key \in DOMAIN items THEN items[key] ELSE default

UpperChars == <<"A","B","C","D","E","F","G","H","I","J","K","L","M",
                "N","O","P","Q","R","S","T","U","V","W","X","Y","Z">>

LowerChars == <<"a","b","c","d","e","f","g","h","i","j","k","l","m",
                "n","o","p","q","r","s","t","u","v","w","x","y","z">>

LowerChar(c) ==
    IF \E i \in 1..Len(UpperChars) : UpperChars[i] = c
    THEN LowerChars[CHOOSE i \in 1..Len(UpperChars) : UpperChars[i] = c]
    ELSE c

\* str.lower()
Lower(s) == [i \in 1..Len(s) |-> LowerChar(s[i])]

StrUnknown == <<"U","n","k","n","o","w","n">>
StrSmall == <<"S","m","a","l","l">>
StrMedium == <<"M","e","d","i","u","m">>
StrLarge == <<"L","a","r","g","e">>
StrLow == <<"L","o","w">>
StrHigh == <<"H","i","g","h">>
StrActive == <<"A","c","t","i","v","e">>
StrModerate == <<"M","o","d","e","r","a","t","e">>
StrSpace == <<" ">>
StrProjectWith == <<" ","p","r","o","j","e","c","t"," ","w","i","t","h"," ">>
StrPopularity == <<" ","p","o","p","u","l","a","r","i","t","y">>

-----------------------------------------------------------------------------
(* analyze_code_metrics *)

ErrorSentinel == [error |-> "No repository data provided"]

\* the first threshold taken inclusively
ProjectSizeInclusive(size_kb) ==
    IF size_kb <= 1000 THEN StrSmall
    ELSE IF size_kb < 10000 THEN StrMedium
    ELSE StrLarge

ProjectSize(size_kb) ==
    IF size_kb < 1000 THEN StrSmall
    ELSE IF size_kb < 10000 THEN StrMedium
    ELSE StrLarge

\* the upper threshold taken inclusively
PopularityInclusive(stars) ==
    IF stars < 100 THEN StrLow
    ELSE IF stars <= 1000 THEN StrMedium
    ELSE StrHigh

Popularity(stars) ==
    IF stars < 100 THEN StrLow
    ELSE IF stars < 1000 THEN StrMedium
    ELSE StrHigh

\* the Active threshold taken inclusively
ActivityLevelInclusive(issues) ==
    IF issues >= 10 THEN StrActive
    ELSE IF issues > 0 THEN StrModerate
    ELSE StrLow

ActivityLevel(issues) ==
    IF issues > 10 THEN StrActive
    ELSE IF issues > 0 THEN StrModerate
    ELSE StrLow

\* the popularity left in its original case
ComplexitySummaryNoLower(project_size, language, popularity) ==
    project_size \o StrSpace \o language \o StrProjectWith
        \o popularity \o StrPopularity

ComplexitySummary(project_size, language, popularity) ==
    project_size \o StrSpace \o language \o StrProjectWith
        \o Lower(popularity) \o StrPopularity

\* forks read from the stargazers_count key
SummaryForksFromStars(items) ==
    LET language == Get(items, "language", StrUnknown)
        size_kb == Get(items, "size", 0)
        stars == Get(items, "stargazers_count", 0)
        forks == Get(items, "stargazers_count", 0)
        issues == Get(items, "open_issues_count", 0)
        project_size == ProjectSize(size_kb)
        popularity == Popularity(stars)
        activity_level == ActivityLevel(issues)
    IN [main_language |-> language,
        project_size |-> project_size,
        popularity_level |-> popularity,
        activity_level |-> activity_level,
        repository_size_kb |-> size_kb,
        stars |-> stars,
        forks |-> forks,
        open_issues |-> issues,
        complexity_summary |->
            ComplexitySummary(project_size, language, popularity)]

\* the metrics extraction and the returned dict, for a truthy repo_data
Summary(items) ==
    LET language == Get(items, "language", StrUnknown)
        size_kb == Get(items, "size", 0)
        stars == Get(items, "stargazers_count", 0)
        forks == Get(items, "forks_count", 0)
        issues == Get(items, "open_issues_count", 0)
        project_size == ProjectSize(size_kb)
        popularity == Popularity(stars)
        activity_level == ActivityLevel(issues)
    IN [main_language |-> language,
        project_size |-> project_size,
        popularity_level |-> popularity,
        activity_level |-> activity_level,
        repository_size_kb |-> size_kb,
        stars |-> stars,
        forks |-> forks,
        open_issues |-> issues,
        complexity_summary |->
            ComplexitySummary(project_size, language, popularity)]

\* a falsy argument replaced by an empty dict instead of being rejected
analyze_code_metrics_defaulting(d) ==
    Summary(IF Truthy(d) THEN d.items ELSE <<>>)

analyze_code_metrics(d) ==
    IF ~Truthy(d) THEN ErrorSentinel ELSE Summary(d.items)

-----------------------------------------------------------------------------
(* Arguments the remote model may supply to the tool function *)

StrPython == <<"P","y","t","h","o","n">>
StrGo == <<"G","o">>
StrName == <<"r","e","p","o">>

Languages == {StrPython, StrGo}
Sizes == {0, 999, 1000, 5000, 9999, 10000, MaxSize}
Stars == {0, 99, 100, 500, 999, 1000, MaxStars}
Forks == {0, 10}
Issues == {0, 1, 3, 10, 11, MaxIssues}
Names == {StrName}

ConsumedKeys ==
    {"language", "size", "stargazers_count", "forks_count", "open_issues_count"}

Keys == ConsumedKeys \cup {"name"}

\* a key is absent (<<>>) or present with one value (<<v>>)
Optional(S) == {<<>>} \cup {<<v>> : v \in S}

Choices ==
    [language : Optional(Languages),
     size : Optional(Sizes),
     stargazers_count : Optional(Stars),
     forks_count : Optional(Forks),
     open_issues_count : Optional(Issues),
     name : Optional(Names)]

ItemsOf(c) == [k \in {key \in Keys : Len(c[key]) = 1} |-> c[k][1]]

Descriptors == {PyDict(ItemsOf(c)) : c \in Choices}

Arguments == {PyNone} \cup Descriptors

NotCalled == [pending |-> TRUE]

\* the execution engine invokes the registered tool function on repo_data
InvokeTool ==
    /\ result = NotCalled
    /\ result' = analyze_code_metrics(repo_data)
    /\ UNCHANGED <<repo_data, scriptVars, serviceVars>>

-----------------------------------------------------------------------------
(* The remote agent service, as the script observes it *)

NoId == 0

AgentIds == 1..NumAgentIds
ThreadIds == 1..NumThreadIds

Queries == {"azure functions", "kubernetes operators"}

TerminalStatuses == {"completed", "failed", "cancelled", "expired"}

LastErrors == {"server_error", "rate_limit_exceeded"}

\* text_messages of a message the master agent may add to the thread
ReplyTexts == {<<>>, <<"analysis">>, <<"draft", "analysis">>}

NoRun == [thread_id |-> NoId, agent_id |-> NoId, status |-> "none", last_error |-> "none"]

Call(op, agent_id, thread_id, order) ==
    [op |-> op, agent_id |-> agent_id, thread_id |-> thread_id, order |-> order]

\* ConnectedAgentTool(id, name, description).definitions[0]
ConnectedAgentTool(id, name, description) ==
    [type |-> "connected_agent", id |-> id, name |-> name, description |-> description]

NoTool == ConnectedAgentTool(NoId, "", "")

Reverse(s) == [i \in 1..Len(s) |-> s[Len(s) + 1 - i]]

\* messages.list(thread_id, order)
MessagesList(thread_id, order) ==
    IF order = "asc" THEN threads[thread_id] ELSE Reverse(threads[thread_id])

AssistantCount(thread_id) ==
    Cardinality({i \in 1..Len(threads[thread_id]) : threads[thread_id][i].role = "assistant"})

EngineStart ==
    /\ \E i \in 1..Len(runs) :
        /\ runs[i].status = "queued"
        /\ runs' = [runs EXCEPT ![i].status = "in_progress"]
    /\ UNCHANGED <<metricsVars, scriptVars, agents, threads, tool_rounds, calls>>

EngineRequiresAction ==
    /\ tool_rounds < MaxToolRounds
    /\ \E i \in 1..Len(runs) :
        /\ runs[i].status = "in_progress"
        /\ runs' = [runs EXCEPT ![i].status = "requires_action"]
    /\ tool_rounds' = tool_rounds + 1
    /\ UNCHANGED <<metricsVars, scriptVars, agents, threads, calls>>

EngineResume ==
    /\ \E i \in 1..Len(runs) :
        /\ runs[i].status = "requires_action"
        /\ runs' = [runs EXCEPT ![i].status = "in_progress"]
    /\ UNCHANGED <<metricsVars, scriptVars, agents, threads, tool_rounds, calls>>

EngineReply ==
    /\ \E i \in 1..Len(runs) :
        /\ runs[i].status = "in_progress"
        /\ AssistantCount(runs[i].thread_id) < MaxReplies
        /\ \E texts \in ReplyTexts :
            threads' = [threads EXCEPT ![runs[i].thread_id] =
                            Append(@, [role |-> "assistant", text_messages |-> texts])]
    /\ UNCHANGED <<metricsVars, scriptVars, agents, runs, tool_rounds, calls>>

EngineFinish ==
    /\ \E i \in 1..Len(runs) :
        /\ runs[i].status = "in_progress"
        /\ \E s \in TerminalStatuses \ {"failed"} :
            runs' = [runs EXCEPT ![i].status = s]
    /\ UNCHANGED <<metricsVars, scriptVars, agents, threads, tool_rounds, calls>>

EngineFail ==
    /\ \E i \in 1..Len(runs) :
        /\ runs[i].status = "in_progress"
        /\ \E e \in LastErrors :
            runs' = [runs EXCEPT ![i].status = "failed", ![i].last_error = e]
    /\ UNCHANGED <<metricsVars, scriptVars, agents, threads, tool_rounds, calls>>

-----------------------------------------------------------------------------
(* The script *)

CreateCodeAnalyst ==
    /\ pc = "create_code_analyst"
    /\ \E id \in AgentIds \ DOMAIN agents :
        /\ agents' = agents @@ (id :> [name |-> "Code Analyst Agent",
                                       tools |-> <<[type |-> "function",
                                                    name |-> "analyze_code_metrics"]>>])
        /\ code_analyst' = id
        /\ calls' = Append(calls, Call("create_agent", id, NoId, ""))
    /\ pc' = "load_openapi"
    /\ UNCHANGED <<metricsVars, github_explorer, documentation_expert, connected_tools,
                   master_agent, thread, user_query, run, messages, cursor, output,
                   threads, runs, tool_rounds>>

LoadOpenApi ==
    /\ pc = "load_openapi"
    /\ pc' = "create_github_explorer"
    /\ UNCHANGED <<metricsVars, code_analyst, github_explorer, documentation_expert,
                   connected_tools, master_agent, thread, user_query, run, messages,
                   cursor, output, serviceVars>>

CreateGithubExplorer ==
    /\ pc = "create_github_explorer"
    /\ \E id \in AgentIds \ DOMAIN agents :
        /\ agents' = agents @@ (id :> [name |-> "GitHub Repository Agent",
                                       tools |-> <<[type |-> "openapi",
                                                    name |-> "RepositoryFinder"]>>])
        /\ github_explorer' = id
        /\ calls' = Append(calls, Call("create_agent", id, NoId, ""))
    /\ pc' = "create_documentation_expert"
    /\ UNCHANGED <<metricsVars, code_analyst, documentation_expert, connected_tools,
                   master_agent, thread, user_query, run, messages, cursor, output,
                   threads, runs, tool_rounds>>

CreateDocumentationExpert ==
    /\ pc = "create_documentation_expert"
    /\ \E id \in AgentIds \ DOMAIN agents :
        /\ agents' = agents @@ (id :> [name |-> "Microsoft Learn Agent",
                                       tools |-> <<[type |-> "mcp",
                                                    name |-> "MicrosoftLean"]>>])
        /\ documentation_expert' = id
        /\ calls' = Append(calls, Call("create_agent", id, NoId, ""))
    /\ pc' = "wrap_connected_tools"
    /\ UNCHANGED <<metricsVars, code_analyst, github_explorer, connected_tools,
                   master_agent, thread, user_query, run, messages, cursor, output,
                   threads, runs, tool_rounds>>

WrapConnectedTools ==
    /\ pc = "wrap_connected_tools"
    /\ connected_tools' =
        [code_analyst_tool |->
            ConnectedAgentTool(code_analyst, "code_analyst",
                               "Analyzes code metrics and complexity of repositories."),
         github_explorer_tool |->
            ConnectedAgentTool(github_explorer, "github_explorer",
                               "Searches and retrieves information from GitHub repositories."),
         documentation_expert_tool |->
            ConnectedAgentTool(documentation_expert, "documentation_expert",
                               "Searches for official Microsoft Learn documentation.")]
    /\ pc' = "create_master_agent"
    /\ UNCHANGED <<metricsVars, code_analyst, github_explorer, documentation_expert,
                   master_agent, thread, user_query, run, messages, cursor, output,
                   serviceVars>>

\* the code analyst's tool listed in the GitHub explorer's place
MasterToolsDuplicated ==
    <<connected_tools.code_analyst_tool,
      connected_tools.code_analyst_tool,
      connected_tools.documentation_expert_tool>>

\* the tools argument of the master agent's create_agent call
MasterTools ==
    <<connected_tools.code_analyst_tool,
      connected_tools.github_explorer_tool,
      connected_tools.documentation_expert_tool>>

CreateMasterAgent ==
    /\ pc = "create_master_agent"
    /\ \E id \in AgentIds \ DOMAIN agents :
        /\ agents' = agents @@ (id :> [name |-> "Master Development Agent",
                                       tools |-> MasterTools])
        /\ master_agent' = id
        /\ calls' = Append(calls, Call("create_agent", id, NoId, ""))
    /\ pc' = "create_thread"
    /\ UNCHANGED <<metricsVars, code_analyst, github_explorer, documentation_expert,
                   connected_tools, thread, user_query, run, messages, cursor, output,
                   threads, runs, tool_rounds>>

CreateThread ==
    /\ pc = "create_thread"
    /\ \E id \in ThreadIds \ DOMAIN threads :
        /\ threads' = threads @@ (id :> <<>>)
        /\ thread' = id
        /\ calls' = Append(calls, Call("create_thread", NoId, id, ""))
    /\ pc' = "read_user_query"
    /\ UNCHANGED <<metricsVars, code_analyst, github_explorer, documentation_expert,
                   connected_tools, master_agent, user_query, run, messages, cursor,
                   output, agents, runs, tool_rounds>>

ReadUserQuery ==
    /\ pc = "read_user_query"
    /\ \E q \in Queries : user_query' = q
    /\ pc' = "create_message"
    /\ UNCHANGED <<metricsVars, code_analyst, github_explorer, documentation_expert,
                   connected_tools, master_agent, thread, run, messages, cursor,
                   output, serviceVars>>

CreateMessage ==
    /\ pc = "create_message"
    /\ threads' = [threads EXCEPT ![thread] =
                        Append(@, [role |-> "user", text_messages |-> <<user_query>>])]
    /\ calls' = Append(calls, Call("create_message", NoId, thread, ""))
    /\ pc' = "submit_run"
    /\ UNCHANGED <<metricsVars, code_analyst, github_explorer, documentation_expert,
                   connected_tools, master_agent, thread, user_query, run, messages,
                   cursor, output, agents, runs, tool_rounds>>

\* the agent the run is submitted against
RunAgent == master_agent

\* create_and_process: the run is created ...
SubmitRun ==
    /\ pc = "submit_run"
    /\ runs' = Append(runs, [thread_id |-> thread, agent_id |-> RunAgent,
                             status |-> "queued", last_error |-> "none"])
    /\ calls' = Append(calls, Call("create_run", RunAgent, thread, ""))
    /\ pc' = "processing"
    /\ UNCHANGED <<metricsVars, code_analyst, github_explorer, documentation_expert,
                   connected_tools, master_agent, thread, user_query, run, messages,
                   cursor, output, agents, threads, tool_rounds>>

\* ... and the call returns it once its status is terminal
RunReturns ==
    /\ pc = "processing"
    /\ runs[Len(runs)].status \in TerminalStatuses
    /\ run' = runs[Len(runs)]
    /\ pc' = "check_status"
    /\ UNCHANGED <<metricsVars, code_analyst, github_explorer, documentation_expert,
                   connected_tools, master_agent, thread, user_query, messages,
                   cursor, output, serviceVars>>

\* every status other than completed taken as a failure
RunNotCompleted(r) == r.status # "completed"

\* if run.status == "failed"
RunFailed(r) == r.status = "failed"

\* a failed run submitted again
ReportFailureRetry ==
    /\ pc = "check_status"
    /\ RunFailed(run)
    /\ output' = Append(output, [kind |-> "failed", text |-> run.last_error])
    /\ pc' = "submit_run"
    /\ UNCHANGED <<metricsVars, code_analyst, github_explorer, documentation_expert,
                   connected_tools, master_agent, thread, user_query, run, messages,
                   cursor, serviceVars>>

ReportFailure ==
    /\ pc = "check_status"
    /\ RunFailed(run)
    /\ output' = Append(output, [kind |-> "failed", text |-> run.last_error])
    /\ pc' = "done"
    /\ UNCHANGED <<metricsVars, code_analyst, github_explorer, documentation_expert,
                   connected_tools, master_agent, thread, user_query, run, messages,
                   cursor, serviceVars>>

ReportSuccess ==
    /\ pc = "check_status"
    /\ ~RunFailed(run)
    /\ output' = Append(output, [kind |-> "success", text |-> ""])
    /\ pc' = "list_messages"
    /\ UNCHANGED <<metricsVars, code_analyst, github_explorer, documentation_expert,
                   connected_tools, master_agent, thread, user_query, run, messages,
                   cursor, serviceVars>>

\* order=ListSortOrder.ASCENDING
ListOrder == "asc"

ListMessages ==
    /\ pc = "list_messages"
    /\ messages' = MessagesList(thread, ListOrder)
    /\ calls' = Append(calls, Call("list_messages", NoId, thread, ListOrder))
    /\ cursor' = 0
    /\ pc' = "render"
    /\ UNCHANGED <<metricsVars, code_analyst, github_explorer, documentation_expert,
                   connected_tools, master_agent, thread, user_query, run, output,
                   agents, threads, runs, tool_rounds>>

\* what one iteration of the render loop prints for message m
Rendered(m) ==
    IF m.text_messages # <<>>
    THEN LET last_msg == m.text_messages[Len(m.text_messages)]
         IN IF m.role = "user" THEN <<[kind |-> "user", text |-> last_msg]>>
            ELSE IF m.role = "assistant" THEN <<[kind |-> "assistant", text |-> last_msg]>>
            ELSE <<>>
    ELSE <<>>

RenderMessage ==
    /\ pc = "render"
    /\ cursor < Len(messages)
    /\ output' = output \o Rendered(messages[cursor + 1])
    /\ cursor' = cursor + 1
    /\ UNCHANGED <<metricsVars, pc, code_analyst, github_explorer, documentation_expert,
                   connected_tools, master_agent, thread, user_query, run, messages,
                   serviceVars>>

FinishRender ==
    /\ pc = "render"
    /\ cursor = Len(messages)
    /\ output' = Append(output, [kind |-> "complete", text |-> ""])
    /\ pc' = "done"
    /\ UNCHANGED <<metricsVars, code_analyst, github_explorer, documentation_expert,
                   connected_tools, master_agent, thread, user_query, run, messages,
                   cursor, serviceVars>>

\* positions at which a remote call, the file read or input() can raise
RaisingPositions ==
    {"create_code_analyst", "load_openapi", "create_github_explorer",
     "create_documentation_expert", "create_master_agent", "create_thread",
     "read_user_query", "create_message", "submit_run", "processing",
     "list_messages"}

\* an exception is never caught: the process terminates
Raise ==
    /\ pc \in RaisingPositions
    /\ pc' = "crashed"
    /\ UNCHANGED <<metricsVars, code_analyst, github_explorer, documentation_expert,
                   connected_tools, master_agent, thread, user_query, run, messages,
                   cursor, output, serviceVars>>

-----------------------------------------------------------------------------
(* Specifications *)

ScriptInit ==
    /\ pc = "create_code_analyst"
    /\ code_analyst = NoId
    /\ github_explorer = NoId
    /\ documentation_expert = NoId
    /\ connected_tools = [code_analyst_tool |-> NoTool,
                          github_explorer_tool |-> NoTool,
                          documentation_expert_tool |-> NoTool]
    /\ master_agent = NoId
    /\ thread = NoId
    /\ user_query = ""
    /\ run = NoRun
    /\ messages = <<>>
    /\ cursor = 0
    /\ output = <<>>
    /\ agents = <<>>
    /\ threads = <<>>
    /\ runs = <<>>
    /\ tool_rounds = 0
    /\ calls = <<>>

Init ==
    /\ repo_data = PyNone
    /\ result = NotCalled
    /\ ScriptInit

\* the tool function may be called with any argument
MetricsInit ==
    /\ repo_data \in Arguments
    /\ result = NotCalled
    /\ ScriptInit

Next ==
    \/ CreateCodeAnalyst
    \/ LoadOpenApi
    \/ CreateGithubExplorer
    \/ CreateDocumentationExpert
    \/ WrapConnectedTools
    \/ CreateMasterAgent
    \/ CreateThread
    \/ ReadUserQuery
    \/ CreateMessage
    \/ SubmitRun
    \/ EngineStart
    \/ EngineRequiresAction
    \/ EngineResume
    \/ EngineReply
    \/ EngineFinish
    \/ EngineFail
    \/ RunReturns
    \/ ReportFailure
    \/ ReportSuccess
    \/ ListMessages
    \/ RenderMessage
    \/ FinishRender
    \/ Raise

Spec == Init /\ [][Next]_vars

MetricsNext == InvokeTool

MetricsSpec == MetricsInit /\ [][MetricsNext]_vars

-----------------------------------------------------------------------------
(* Properties of analyze_code_metrics, checked under MetricsSpec *)

Returned == result # NotCalled

NonEmpty(d) == d.kind = "dict" /\ DOMAIN d.items # {}

IsSummary == Returned /\ "error" \notin DOMAIN result

\* the value of a descriptor key, or the default when the key is missing
Given(key, default) ==
    IF key \in DOMAIN repo_data.items THEN repo_data.items[key] ELSE default

\* C1: for every non-empty descriptor project_size is Small below 1000,
\* Medium from 1000 up to 9999 and Large from 10000 on (size defaulting to
\* 0), with 999 Small, 1000 and 9999 Medium, 10000 Large, and no other value.
C1_ProjectSize ==
    (Returned /\ NonEmpty(repo_data)) =>
        LET size == Given("size", 0)
        IN /\ "error" \notin DOMAIN result
           /\ size < 1000 => result.project_size = StrSmall
           /\ (1000 <= size /\ size < 10000) => result.project_size = StrMedium
           /\ size >= 10000 => result.project_size = StrLarge
           /\ size = 999 => result.project_size = StrSmall
           /\ size \in {1000, 9999} => result.project_size = StrMedium
           /\ size = 10000 => result.project_size = StrLarge
           /\ result.project_size \in {StrSmall, StrMedium, StrLarge}

C1_Witness ==
    /\ Returned
    /\ NonEmpty(repo_data)
    /\ "size" \in DOMAIN repo_data.items
    /\ repo_data.items["size"] = 1000
    /\ result.project_size = StrMedium

\* C2: for every non-empty descriptor popularity_level is Low below 100
\* stars, Medium from 100 up to 999 and High from 1000 on (stars defaulting
\* to 0), with 99 Low, 100 and 999 Medium, 1000 High, and no other value.
C2_PopularityLevel ==
    (Returned /\ NonEmpty(repo_data)) =>
        LET stars == Given("stargazers_count", 0)
        IN /\ "error" \notin DOMAIN result
           /\ stars < 100 => result.popularity_level = StrLow
           /\ (100 <= stars /\ stars < 1000) => result.popularity_level = StrMedium
           /\ stars >= 1000 => result.popularity_level = StrHigh
           /\ stars = 99 => result.popularity_level = StrLow
           /\ stars \in {100, 999} => result.popularity_level = StrMedium
           /\ stars = 1000 => result.popularity_level = StrHigh
           /\ result.popularity_level \in {StrLow, StrMedium, StrHigh}

C2_Witness ==
    /\ Returned
    /\ NonEmpty(repo_data)
    /\ "stargazers_count" \in DOMAIN repo_data.items
    /\ repo_data.items["stargazers_count"] = 1000
    /\ result.popularity_level = StrHigh

\* C3: for every non-empty descriptor activity_level is Active above 10 open
\* issues, Moderate from 1 to 10 and Low at 0 (issues defaulting to 0), with
\* 0 Low, 1 and 10 Moderate, 11 Active.
C3_ActivityLevel ==
    (Returned /\ NonEmpty(repo_data)) =>
        LET issues == Given("open_issues_count", 0)
        IN /\ "error" \notin DOMAIN result
           /\ issues > 10 => result.activity_level = StrActive
           /\ (0 < issues /\ issues <= 10) => result.activity_level = StrModerate
           /\ issues = 0 => result.activity_level = StrLow
           /\ issues \in {1, 10} => result.activity_level = StrModerate
           /\ issues = 11 => result.activity_level = StrActive

C3_Witness ==
    /\ Returned
    /\ NonEmpty(repo_data)
    /\ "open_issues_count" \in DOMAIN repo_data.items
    /\ repo_data.items["open_issues_count"] = 10
    /\ result.activity_level = StrModerate

MetricsSummaryFields ==
    {"main_language", "project_size", "popularity_level", "activity_level",
     "repository_size_kb", "stars", "forks", "open_issues", "complexity_summary"}

\* C4: called with None the function returns, as an ordinary value, the dict
\* whose only field is error = "No repository data provided", with no
\* MetricsSummary field; no other result carries an error field.
C4_ErrorSentinel ==
    Returned =>
        /\ repo_data.kind = "None" =>
            /\ DOMAIN result = {"error"}
            /\ result.error = "No repository data provided"
            /\ DOMAIN result \cap MetricsSummaryFields = {}
        /\ "error" \in DOMAIN result =>
            /\ DOMAIN result = {"error"}
            /\ result.error = "No repository data provided"
        /\ "error" \notin DOMAIN result => DOMAIN result = MetricsSummaryFields

C4_Witness ==
    /\ Returned
    /\ repo_data.kind = "None"
    /\ DOMAIN result = {"error"}

StrDefaultSummary ==
    <<"S","m","a","l","l"," ","U","n","k","n","o","w","n"," ","p","r","o","j","e","c","t"," ","w","i","t","h"," ","l","o","w"," ","p","o","p","u","l","a","r","i","t","y">>

AllDefaults ==
    /\ "error" \notin DOMAIN result
    /\ result.main_language = StrUnknown
    /\ result.project_size = StrSmall
    /\ result.popularity_level = StrLow
    /\ result.activity_level = StrLow
    /\ result.complexity_summary = StrDefaultSummary

IsEmptyMap(d) == d.kind = "dict" /\ DOMAIN d.items = {}

\* C5 as stated: called with the empty map {} the function returns a
\* MetricsSummary built from all defaults.
C5_EmptyMapGivesDefaults ==
    (Returned /\ IsEmptyMap(repo_data)) => AllDefaults

\* C5 (amended): called with the empty map {} the function returns the
\* error sentinel; called with a non-empty map that has none of the five
\* consumed keys it returns the MetricsSummary built from all defaults.
C5_EmptyMapGivesSentinel ==
    Returned =>
        /\ IsEmptyMap(repo_data) =>
            /\ DOMAIN result = {"error"}
            /\ result.error = "No repository data provided"
        /\ (NonEmpty(repo_data) /\ DOMAIN repo_data.items \cap ConsumedKeys = {}) =>
            /\ AllDefaults
            /\ result.repository_size_kb = 0
            /\ result.stars = 0
            /\ result.forks = 0
            /\ result.open_issues = 0

C5_Witness ==
    /\ Returned
    /\ IsEmptyMap(repo_data)
    /\ DOMAIN result = {"error"}

\* the lower-case spelling of each popularity level
LowerCased(level) ==
    CASE level = StrLow -> <<"l","o","w">>
      [] level = StrMedium -> <<"m","e","d","i","u","m">>
      [] level = StrHigh -> <<"h","i","g","h">>

StrExampleSummary ==
    <<"M","e","d","i","u","m"," ","P","y","t","h","o","n"," ","p","r","o","j","e","c","t"," ","w","i","t","h"," ","m","e","d","i","u","m"," ","p","o","p","u","l","a","r","i","t","y">>

\* C6: for every non-empty descriptor complexity_summary is project_size,
\* a space, main_language, " project with ", the lower-cased
\* popularity_level and " popularity", taken from the same result; language
\* Python, size 5000, stars 500 gives
\* "Medium Python project with medium popularity".
C6_ComplexitySummary ==
    (Returned /\ NonEmpty(repo_data)) =>
        /\ "error" \notin DOMAIN result
        /\ result.complexity_summary =
                result.project_size \o <<" ">> \o result.main_language
                    \o <<" ","p","r","o","j","e","c","t"," ","w","i","t","h"," ">>
                    \o LowerCased(result.popularity_level)
                    \o <<" ","p","o","p","u","l","a","r","i","t","y">>
        /\ ( /\ Given("language", <<>>) = StrPython
             /\ Given("size", 0) = 5000
             /\ Given("stargazers_count", 0) = 500 )
            => result.complexity_summary = StrExampleSummary

C6_Witness ==
    /\ Returned
    /\ NonEmpty(repo_data)
    /\ Given("language", <<>>) = StrPython
    /\ Given("size", 0) = 5000
    /\ Given("stargazers_count", 0) = 500
    /\ result.complexity_summary = StrExampleSummary

\* the descriptors that differ from d at most in the key the function does not read
NameVariants(d) ==
    LET base == [k \in DOMAIN d.items \ {"name"} |-> d.items[k]]
    IN {PyDict(base)} \cup {PyDict(base @@ ("name" :> n)) : n \in Names \cup {StrGo}}

\* C7: for every non-empty descriptor main_language, repository_size_kb,
\* stars, forks and open_issues equal the language, size, stargazers_count,
\* forks_count and open_issues_count fields, a missing numeric key giving 0
\* and a missing language "Unknown"; a key other than these five changes no
\* field of the result.
C7_PassThrough ==
    (Returned /\ NonEmpty(repo_data)) =>
        /\ "error" \notin DOMAIN result
        /\ result.main_language = Given("language", StrUnknown)
        /\ result.repository_size_kb = Given("size", 0)
        /\ result.stars = Given("stargazers_count", 0)
        /\ result.forks = Given("forks_count", 0)
        /\ result.open_issues = Given("open_issues_count", 0)
        /\ \A d \in NameVariants(repo_data) :
                NonEmpty(d) => analyze_code_metrics(d) = result

C7_Witness ==
    /\ Returned
    /\ NonEmpty(repo_data)
    /\ DOMAIN repo_data.items = {"stargazers_count", "forks_count", "name"}
    /\ repo_data.items["forks_count"] = 10
    /\ repo_data.items["stargazers_count"] = 500
    /\ result.forks = 10
    /\ result.main_language = StrUnknown

-----------------------------------------------------------------------------
(* Properties of the script, checked under Spec *)

CallsOf(op) == {i \in 1..Len(calls) : calls[i].op = op}

AfterRun == pc \in {"check_status", "list_messages", "render", "done"}

\* what rendering a listing prints: for each message that has text, in
\* order, its role and its last text
Transcript(ms) ==
    LET withText == SelectSeq(ms, LAMBDA m : m.text_messages # <<>>)
    IN [i \in 1..Len(withText) |->
            [kind |-> withText[i].role,
             text |-> withText[i].text_messages[Len(withText[i].text_messages)]]]

\* C8: once the run call has returned the script branches on the final status
\* only: a failed run has its last_error reported and the messages are
\* neither listed nor rendered; a completed, cancelled or expired run has the
\* thread's messages listed in ascending order and rendered; nothing is
\* listed before the run is terminal.
C8_BranchOnFinalStatus ==
    /\ AfterRun =>
        /\ run = runs[Len(runs)]
        /\ run.status \in TerminalStatuses
    /\ (CallsOf("list_messages") # {} \/ messages # <<>> \/ cursor > 0) =>
        /\ runs # <<>>
        /\ runs[Len(runs)].status \in {"completed", "cancelled", "expired"}
        /\ run.status \in {"completed", "cancelled", "expired"}
    /\ \A i \in CallsOf("list_messages") :
        /\ calls[i].order = "asc"
        /\ calls[i].thread_id = thread
    /\ (AfterRun /\ run.status = "failed") =>
        /\ pc \in {"check_status", "done"}
        /\ CallsOf("list_messages") = {}
        /\ messages = <<>>
        /\ pc = "done" => output = <<[kind |-> "failed", text |-> run.last_error]>>
    /\ (pc = "done" /\ run.status # "failed") =>
        /\ Cardinality(CallsOf("list_messages")) = 1
        /\ messages = threads[thread]
        /\ output = <<[kind |-> "success", text |-> ""]>>
                        \o Transcript(threads[thread])
                        \o <<[kind |-> "complete", text |-> ""]>>

C8_Witness ==
    /\ pc = "done"
    /\ run.status = "cancelled"
    /\ Len(messages) = 3
    /\ Len(output) = 4

\* the user-role messages held by the service, over all threads
UserMessageCount ==
    Cardinality({<<t, i>> \in (DOMAIN threads) \X (1..(MaxReplies + 2)) :
                    i <= Len(threads[t]) /\ threads[t][i].role = "user"})

\* C9: exactly one thread is created, exactly one user message is appended to
\* it and exactly one run is submitted binding that thread to the master
\* agent, in that order; there is never a second thread, message or run.
C9_OneThreadMessageRun ==
    /\ Cardinality(CallsOf("create_thread")) <= 1
    /\ Cardinality(CallsOf("create_message")) <= 1
    /\ Cardinality(CallsOf("create_run")) <= 1
    /\ Cardinality(DOMAIN threads) = Cardinality(CallsOf("create_thread"))
    /\ UserMessageCount = Cardinality(CallsOf("create_message"))
    /\ Len(runs) = Cardinality(CallsOf("create_run"))
    /\ \A m \in CallsOf("create_message") :
        \E t \in CallsOf("create_thread") :
            t < m /\ calls[t].thread_id = calls[m].thread_id
    /\ \A r \in CallsOf("create_run") :
        \E m \in CallsOf("create_message") :
            m < r /\ calls[m].thread_id = calls[r].thread_id
    /\ (pc = "processing" \/ AfterRun) =>
        /\ Cardinality(CallsOf("create_thread")) = 1
        /\ Cardinality(CallsOf("create_message")) = 1
        /\ Cardinality(CallsOf("create_run")) = 1
        /\ runs[1].thread_id = thread
        /\ runs[1].agent_id = master_agent
        /\ threads[thread][1] = [role |-> "user", text_messages |-> <<user_query>>]

C9_Witness ==
    /\ pc = "done"
    /\ run.status = "failed"
    /\ Len(runs) = 1
    /\ Cardinality(CallsOf("create_message")) = 1

Specialists ==
    {<<code_analyst, "code_analyst", "Code Analyst Agent">>,
     <<github_explorer, "github_explorer", "GitHub Repository Agent">>,
     <<documentation_expert, "documentation_expert", "Microsoft Learn Agent">>}

\* position in calls of the create_agent call that returned id
CreatedAt(id) == CHOOSE i \in CallsOf("create_agent") : calls[i].agent_id = id

\* C10: the master agent is created only after the three specialists have
\* been created and have returned their identifiers; its tools are exactly
\* three connected-tool descriptors, one per specialist, each with that
\* specialist's identifier; the run is submitted against the master agent and
\* never against a specialist.
C10_MasterAfterSpecialists ==
    /\ master_agent # NoId =>
        /\ Cardinality({s[1] : s \in Specialists} \cup {NoId, master_agent}) = 5
        /\ \A s \in Specialists :
            /\ s[1] \in DOMAIN agents
            /\ agents[s[1]].name = s[3]
            /\ CreatedAt(s[1]) < CreatedAt(master_agent)
            /\ Cardinality({i \in 1..Len(agents[master_agent].tools) :
                    /\ agents[master_agent].tools[i].type = "connected_agent"
                    /\ agents[master_agent].tools[i].id = s[1]
                    /\ agents[master_agent].tools[i].name = s[2]}) = 1
        /\ agents[master_agent].name = "Master Development Agent"
        /\ Len(agents[master_agent].tools) = 3
    /\ \A i \in CallsOf("create_run") :
        /\ master_agent # NoId
        /\ calls[i].agent_id = master_agent
        /\ calls[i].agent_id \notin {s[1] : s \in Specialists}
    /\ \A i \in 1..Len(runs) :
        /\ runs[i].agent_id = master_agent
        /\ agents[runs[i].agent_id].name = "Master Development Agent"

C10_Witness ==
    /\ master_agent # NoId
    /\ Len(runs) = 1
    /\ runs[1].agent_id = master_agent
    /\ Len(agents[master_agent].tools) = 3

====
